---------------------------- MODULE Spec2Model ----------------------------
(***************************************************************************)
(* A model of app_diffexpr.py: the contrast detector, the gene-column      *)
(* resolver, the per-contrast table builder, the significance classifier   *)
(* and the script that wires them to the upload widget and the four tabs.  *)
(*                                                                         *)
(* Column names are sequences of one-character strings, so that the        *)
(* regular expressions of detectar_contrastes are matched character by     *)
(* character.  Numbers are decimal floats of one significant digit:        *)
(* 0 or sign * digit * 10^exp.                                             *)
(***************************************************************************)
EXTENDS Integers, Sequences, FiniteSets, TLC

VARIABLES
    uploaded,            \* the file held by st.sidebar.file_uploader, or NoFile
    sep_choice,          \* the "Separador" selectbox
    sel_gene,            \* the "Selecciona la columna de gen" selectbox
    sel_contraste,       \* the "Contraste" selectbox of the Volcano / MA tab
    sel_contraste_tabla, \* the "Contraste" selectbox of the DEGs tab
    thr_volcano,         \* the two number_inputs of the Volcano / MA tab
    thr_degs,            \* the two number_inputs of the DEGs tab (thr1, thr2)
    df,                  \* script global df
    info_contrastes,     \* script global info_contrastes
    gene_col,            \* script global gene_col
    deg,                 \* result of preparar_deg_por_contraste
    cats,                \* deg["cat"] of the Volcano / MA tab
    deg_filt,            \* index of deg.loc[mask].sort_values("padj")
    views,               \* what the last script run rendered
    hist,                \* history variable: what earlier runs showed
    pc                   \* position of the script run

widgets == <<uploaded, sep_choice, sel_gene, sel_contraste,
             sel_contraste_tabla, thr_volcano, thr_degs>>

outputs == <<deg, cats, deg_filt, views, hist>>

vars == <<widgets, df, info_contrastes, gene_col, outputs, pc>>

---------------------------------------------------------------------------
(* Characters and strings *)

UpperAZ == <<"A","B","C","D","E","F","G","H","I","J","K","L","M",
             "N","O","P","Q","R","S","T","U","V","W","X","Y","Z">>

LowerAZ == <<"a","b","c","d","e","f","g","h","i","j","k","l","m",
             "n","o","p","q","r","s","t","u","v","w","x","y","z">>

\* Case folding of one character, as re.IGNORECASE compares them.
UpperSet == {UpperAZ[i] : i \in 1..26}
Lower(c) ==
    IF c \in UpperSet
    THEN LowerAZ[CHOOSE i \in 1..26 : UpperAZ[i] = c]
    ELSE c

\* Python's None.  No column name is empty, and None and "" are both falsy.
None == <<>>

Truthy(v) == v # None

NL == "\n"

\* F(v), with v evaluated once.
Bind(v, F(_)) == CHOOSE r \in {F(x) : x \in {v}} : TRUE

---------------------------------------------------------------------------
(* detectar_contrastes *)

\* The literal part of each pattern, after the group (.+?).
LitLogFC   == <<"_","l","o","g","F","C">>
LitAveExpr == <<"_","A","v","e","E","x","p","r">>
LitAdjP    == <<"_","a","d","j",".","P",".","V","a","l">>
LitP       == <<"_","P",".","V","a","l","u","e">>

\* The dict patrones, in insertion order.
patrones ==
    << [tipo |-> "logFC",   lit |-> LitLogFC],
       [tipo |-> "AveExpr", lit |-> LitAveExpr],
       [tipo |-> "adjP",    lit |-> LitAdjP],
       [tipo |-> "P",       lit |-> LitP] >>

\* s[from..to] equals lit, ignoring case.
LitAt(lit, s, from) ==
    /\ from >= 1
    /\ from + Len(lit) - 1 <= Len(s)
    /\ \A i \in 1..Len(lit) : Lower(s[from + i - 1]) = Lower(lit[i])

\* (.+?) over s[1..n]: at least one character, none of them a line break.
DotPlus(s, n) == n >= 1 /\ \A i \in 1..n : s[i] # NL

\* The positions where $ matches: the end of s, and just before a line
\* break that ends s.
DollarEnds(s) ==
    {Len(s)} \cup (IF Len(s) >= 1 /\ s[Len(s)] = NL THEN {Len(s) - 1} ELSE {})

\* The lengths (.+?) may take so that pat.match(s) succeeds.
GroupLens(lit, s) ==
    {e - Len(lit) : e \in {x \in DollarEnds(s) :
                              /\ LitAt(lit, s, x - Len(lit) + 1)
                              /\ DotPlus(s, x - Len(lit))}}

Min(S) == CHOOSE x \in S : \A y \in S : x <= y

\* pat.match(col): m.group(1), or None when there is no match.  The lazy
\* group takes the shortest length that lets the rest match.
PatMatch(lit, s) ==
    IF GroupLens(lit, s) = {} THEN None
    ELSE SubSeq(s, 1, Min(GroupLens(lit, s)))

EmptyMeta == [logFC |-> None, AveExpr |-> None, adjP |-> None, P |-> None]

\* The index of pref in the dict info (a sequence of [pref, d]), 0 if absent.
KeyIndex(info, pref) ==
    IF \E i \in 1..Len(info) : info[i].pref = pref
    THEN CHOOSE i \in 1..Len(info) : info[i].pref = pref
    ELSE 0

\* info[pref][tipo] = col, inserting pref first when it is new.
SetRole(info, pref, tipo, col) ==
    LET base == IF KeyIndex(info, pref) = 0
                THEN Append(info, [pref |-> pref, d |-> EmptyMeta])
                ELSE info
        k    == KeyIndex(base, pref)
    IN  [base EXCEPT ![k].d = [@ EXCEPT ![tipo] = col]]

\* The inner loop over patrones for one column: the first pattern that
\* matches sets its role and breaks.
RECURSIVE ScanPatterns(_, _, _)
ScanPatterns(info, col, j) ==
    IF j > Len(patrones) THEN info
    ELSE LET pref == PatMatch(patrones[j].lit, col)
         IN  IF pref # None
             THEN SetRole(info, pref, patrones[j].tipo, col)
             ELSE ScanPatterns(info, col, j + 1)

\* The outer loop over df.columns.
RECURSIVE ScanColumns(_, _, _)
ScanColumns(info, columns, i) ==
    IF i > Len(columns) THEN info
    ELSE ScanColumns(ScanPatterns(info, columns[i], 1), columns, i + 1)

\* A filter that forgets the p-value: its contrasts need only a logFC.
IsValido_LogFCOnly(e) == Truthy(e.d.logFC)

\* The filter that builds validos.
IsValido(e) == Truthy(e.d.logFC) /\ (Truthy(e.d.adjP) \/ Truthy(e.d.P))

detectar_contrastes(columns) ==
    SelectSeq(ScanColumns(<<>>, columns, 1), IsValido)

\* info_contrastes[pref]
Meta(info, pref) == info[KeyIndex(info, pref)].d

Keys(info) == {info[i].pref : i \in 1..Len(info)}

---------------------------------------------------------------------------
(* elegir_columna_gen *)

nSYMBOL    == <<"S","Y","M","B","O","L">>
nGene_id   == <<"g","e","n","e","_","i","d">>
nGeneid    == <<"G","e","n","e","i","d">>
nGeneID    == <<"G","e","n","e","I","D">>
nGene      == <<"g","e","n","e">>
nGeneCap   == <<"G","e","n","e">>
nLocus_tag == <<"l","o","c","u","s","_","t","a","g">>

candidatos == <<nSYMBOL, nGene_id, nGeneid, nGeneID, nGene, nGeneCap, nLocus_tag>>

InColumns(c, columns) == \E i \in 1..Len(columns) : columns[i] = c

RECURSIVE FirstCandidate(_, _)
FirstCandidate(columns, k) ==
    IF k > Len(candidatos) THEN None
    ELSE IF InColumns(candidatos[k], columns) THEN candidatos[k]
    ELSE FirstCandidate(columns, k + 1)

\* A resolver that takes the first column that is a candidate.
elegir_ColumnOrder(columns) ==
    IF \E i \in 1..Len(columns) : \E k \in 1..Len(candidatos) : columns[i] = candidatos[k]
    THEN columns[Min({i \in 1..Len(columns) :
                        \E k \in 1..Len(candidatos) : columns[i] = candidatos[k]})]
    ELSE None

elegir_columna_gen(columns) == FirstCandidate(columns, 1)

---------------------------------------------------------------------------
(* Cell values and floating-point numbers *)

\* A cell is a record [k, s, m, e].  k = "num": the float s * m * 10^e with
\* one significant digit m (s = 0 is zero); "nan": NaN; "txt": text that is
\* not a number; "numtxt": text that spells the number s * m * 10^e;
\* "log": the real number s * (log10(m) + e); "inf": s * infinity.
Num(s, m, e) == [k |-> "num", s |-> s, m |-> m, e |-> e]
Zero    == Num(0, 1, 0)
NaN     == [k |-> "nan", s |-> 0, m |-> 1, e |-> 0]
Txt     == [k |-> "txt", s |-> 0, m |-> 1, e |-> 0]
NumTxt(x) == [x EXCEPT !.k = "numtxt"]
Inf(s)  == [k |-> "inf", s |-> s, m |-> 1, e |-> 0]

IsNum(x) == x.k = "num"

\* np.isnan
IsNaN(x) == x.k = "nan"

\* a < b for positive floats
PosLt(a, b) == a.e < b.e \/ (a.e = b.e /\ a.m < b.m)

\* a < b; any comparison with NaN is False
Lt(a, b) ==
    /\ IsNum(a) /\ IsNum(b)
    /\ \/ a.s < b.s
       \/ a.s = 1 /\ b.s = 1 /\ PosLt(a, b)
       \/ a.s = -1 /\ b.s = -1 /\ PosLt(b, a)

\* a <= b; any comparison with NaN is False
Le(a, b) == IsNum(a) /\ IsNum(b) /\ ~Lt(b, a)

\* a >= b
Ge(a, b) == Le(b, a)

\* abs(x), Series.abs()
Abs(x) == IF IsNum(x) /\ x.s = -1 THEN [x EXCEPT !.s = 1] ELSE x

\* pd.to_numeric(..., errors="coerce") on one cell
to_numeric(x) ==
    CASE x.k = "txt"    -> NaN
      [] x.k = "numtxt" -> [x EXCEPT !.k = "num"]
      [] OTHER          -> x

\* The exponents of the clip bounds 1e-300 and 1.0.
ClipLoExp == -300
ClipHiExp == 0

\* A clip that forgets the lower bound.
np_clip_UpperOnly(x, lo, hi) ==
    IF ~IsNum(x) THEN x ELSE IF Lt(hi, x) THEN hi ELSE x

\* np.clip(x, lo, hi) = minimum(maximum(x, lo), hi); NaN stays NaN
np_clip(x, lo, hi) ==
    IF ~IsNum(x) THEN x
    ELSE LET up == IF Lt(x, lo) THEN lo ELSE x
         IN  IF Lt(hi, up) THEN hi ELSE up

\* np.log10
np_log10(x) ==
    CASE ~IsNum(x) -> x
      [] x.s = 0   -> Inf(-1)
      [] x.s = -1  -> NaN
      [] OTHER     -> [k |-> "log", s |-> 1, m |-> x.m, e |-> x.e]

\* unary minus
Neg(x) == IF x.k \in {"log", "inf", "num"} THEN [x EXCEPT !.s = -x.s] ELSE x

\* -np.log10(np.clip(padj, 1e-300, 1.0)) on one cell
NegLog10Padj(padj) ==
    Neg(np_log10(np_clip(padj, Num(1, 1, ClipLoExp), Num(1, 1, ClipHiExp))))

---------------------------------------------------------------------------
(* Tables: [columns |-> sequence of names, rows |-> sequence of rows],   *)
(* each row a sequence of cells, one per column.                         *)

nLogFC   == <<"l","o","g","F","C">>
nAveExpr == <<"A","v","e","E","x","p","r">>
nPadj    == <<"p","a","d","j">>
nNegLog  == <<"n","e","g","_","l","o","g","1","0","_","p","a","d","j">>

\* The positions of the columns called name.
ColIdx(t, name) == {i \in 1..Len(t.columns) : t.columns[i] = name}

TheCol(t, name) == CHOOSE i \in ColIdx(t, name) : TRUE

\* {k1: v1, k2: v2, ...}[k]: a dict literal keeps the last value of a key.
DictHas(pairs, k) == \E i \in 1..Len(pairs) : pairs[i][1] = k
DictGet(pairs, k) ==
    pairs[CHOOSE i \in 1..Len(pairs) :
             /\ pairs[i][1] = k
             /\ \A j \in (i + 1)..Len(pairs) : pairs[j][1] # k][2]

\* DataFrame.rename(columns=pairs)
Rename(t, pairs) ==
    [t EXCEPT !.columns =
        [i \in 1..Len(t.columns) |->
            IF DictHas(pairs, t.columns[i]) THEN DictGet(pairs, t.columns[i])
            ELSE t.columns[i]]]

\* work[name] = vals (one value per row): overwrites the column, or appends
\* a new one.
SetColumn(t, name, vals) ==
    IF ColIdx(t, name) # {}
    THEN [t EXCEPT !.rows =
            [r \in 1..Len(t.rows) |->
                [i \in 1..Len(t.columns) |->
                    IF t.columns[i] = name THEN vals[r] ELSE t.rows[r][i]]]]
    ELSE [columns |-> Append(t.columns, name),
          rows    |-> [r \in 1..Len(t.rows) |-> Append(t.rows[r], vals[r])]]

\* The positions work[[n1, n2, ...]] selects: for each name in turn, every
\* column that carries it.
RECURSIVE PickIdx(_, _, _)
PickIdx(t, names, k) ==
    IF k > Len(names) THEN <<>>
    ELSE LET RECURSIVE Asc(_)
             Asc(S) == IF S = {} THEN <<>>
                       ELSE <<Min(S)>> \o Asc(S \ {Min(S)})
         IN  Asc(ColIdx(t, names[k])) \o PickIdx(t, names, k + 1)

Pick(t, names) ==
    LET idx == PickIdx(t, names, 1)
    IN  [columns |-> [j \in 1..Len(idx) |-> t.columns[idx[j]]],
         rows    |-> [r \in 1..Len(t.rows) |->
                         [j \in 1..Len(idx) |-> t.rows[r][idx[j]]]]]

Raised(what) == [raised |-> what]
IsRaised(x) == "raised" \in DOMAIN x

DegColumns == <<nGene, nLogFC, nAveExpr, nPadj, nNegLog>>

---------------------------------------------------------------------------
(* preparar_deg_por_contraste *)

\* Lines 120-123, on the table after the renames.
CoerceAndPick(w2) ==
    \* work["padj"] of a missing column is a KeyError; of a repeated column
    \* it is a DataFrame, which pd.to_numeric rejects
    IF ColIdx(w2, nPadj) = {} THEN Raised("KeyError")
    ELSE IF Cardinality(ColIdx(w2, nPadj)) > 1 THEN Raised("TypeError")
    ELSE Bind(SetColumn(w2, nPadj,
                        [r \in 1..Len(w2.rows) |->
                            to_numeric(w2.rows[r][TheCol(w2, nPadj)])]),
         LAMBDA w3 :
    IF ColIdx(w3, nLogFC) = {} THEN Raised("KeyError")
    ELSE IF Cardinality(ColIdx(w3, nLogFC)) > 1 THEN Raised("TypeError")
    ELSE Bind(SetColumn(w3, nLogFC,
                        [r \in 1..Len(w3.rows) |->
                            to_numeric(w3.rows[r][TheCol(w3, nLogFC)])]),
         LAMBDA w4 :
         Bind(SetColumn(w4, nNegLog,
                        [r \in 1..Len(w4.rows) |->
                            NegLog10Padj(w4.rows[r][TheCol(w4, nPadj)])]),
         LAMBDA w5 :
    IF \E k \in 1..Len(DegColumns) : ColIdx(w5, DegColumns[k]) = {}
    THEN Raised("KeyError")
    ELSE Pick(w5, DegColumns))))

preparar_deg_por_contraste(t, gcol, contraste, info) ==
    LET meta      == Meta(info, contraste)
        logfc_col == meta.logFC
        ave_col   == meta.AveExpr
        padj_col  == IF Truthy(meta.adjP) THEN meta.adjP ELSE meta.P
    IN  Bind(Rename(t, << <<gcol, nGene>>, <<logfc_col, nLogFC>>,
                          <<padj_col, nPadj>> >>),
        LAMBDA w1 :
        Bind(IF Truthy(ave_col)
             THEN Rename(w1, << <<ave_col, nAveExpr>> >>)
             ELSE SetColumn(w1, nAveExpr, [r \in 1..Len(w1.rows) |-> NaN]),
             CoerceAndPick))

---------------------------------------------------------------------------
(* The classifier of the Volcano / MA tab and the mask of the DEGs tab *)

\* row["logFC"], row["padj"] of a DegTable row
RowLogFC(degt, row) == row[TheCol(degt, nLogFC)]
RowPadj(degt, row)  == row[TheCol(degt, nPadj)]

\* A classifier with strict comparisons at the thresholds.
cat_Strict(logFC, padj, thr_logfc, thr_padj) ==
    IF IsNaN(logFC) \/ IsNaN(padj) THEN "No eval"
    ELSE IF Lt(thr_logfc, Abs(logFC)) /\ Lt(padj, thr_padj)
         THEN (IF Lt(Zero, logFC) THEN "Up" ELSE "Down")
         ELSE "No sig"

\* A classifier that compares |logFC| with its threshold the wrong way round.
cat_Reversed(logFC, padj, thr_logfc, thr_padj) ==
    IF IsNaN(logFC) \/ IsNaN(padj) THEN "No eval"
    ELSE IF Le(Abs(logFC), thr_logfc) /\ Le(padj, thr_padj)
         THEN (IF Lt(Zero, logFC) THEN "Up" ELSE "Down")
         ELSE "No sig"

cat(logFC, padj, thr_logfc, thr_padj) ==
    IF IsNaN(logFC) \/ IsNaN(padj) THEN "No eval"
    ELSE IF Ge(Abs(logFC), thr_logfc) /\ Le(padj, thr_padj)
         THEN (IF Lt(Zero, logFC) THEN "Up" ELSE "Down")
         ELSE "No sig"

\* deg.apply(cat, axis=1)
ApplyCat(degt, thr) ==
    [r \in 1..Len(degt.rows) |->
        cat(RowLogFC(degt, degt.rows[r]), RowPadj(degt, degt.rows[r]),
            thr.logfc, thr.padj)]

\* A mask that forgets .abs().
mask_NoAbs(logFC, padj, thr_logfc, thr_padj) ==
    Ge(logFC, thr_logfc) /\ Le(padj, thr_padj)

\* mask = (deg["logFC"].abs() >= thr_logfc) & (deg["padj"] <= thr_padj)
mask(logFC, padj, thr_logfc, thr_padj) ==
    Ge(Abs(logFC), thr_logfc) /\ Le(padj, thr_padj)

MaskRows(degt, thr) ==
    {r \in 1..Len(degt.rows) :
        mask(RowLogFC(degt, degt.rows[r]), RowPadj(degt, degt.rows[r]),
             thr.logfc, thr.padj)}

---------------------------------------------------------------------------
(* Streamlit selectboxes, and Python's order of strings *)

\* The characters of the model in code-point order.
CodeOrder ==
    <<"\t", NL, ",", ".", "0", "1", "2", "3", "4", "5", "6", "7", "8", "9", ";">>
        \o UpperAZ \o <<"_">> \o LowerAZ \o <<"|">>

Code(c) == CHOOSE i \in 1..Len(CodeOrder) : CodeOrder[i] = c

\* a < b for two strings
StrLt(a, b) ==
    \E k \in 1..(Len(a) + 1) :
        /\ \A i \in 1..(k - 1) : i <= Len(b) /\ a[i] = b[i]
        /\ \/ k = Len(a) + 1 /\ k <= Len(b)
           \/ k <= Len(a) /\ k <= Len(b) /\ Code(a[k]) < Code(b[k])

\* sorted(S) for a set of strings
RECURSIVE sorted(_)
sorted(S) ==
    IF S = {} THEN <<>>
    ELSE LET least == CHOOSE x \in S : \A y \in S \ {x} : StrLt(x, y)
         IN  <<least>> \o sorted(S \ {least})

\* st.selectbox(label, options): the option the user picked while the
\* widget showed these options, else the first option; None without options.
Selectbox(state, options) ==
    IF options = <<>> THEN None
    ELSE IF state.options = options /\ state.idx \in 1..Len(options)
         THEN options[state.idx]
         ELSE options[1]

\* The states a selectbox over options can be in.
SelectStates(options) ==
    {[options |-> <<>>, idx |-> 0]}
        \cup {[options |-> options, idx |-> i] : i \in 1..Len(options)}

\* Lines 143-147: the detected gene column, else the selectbox's value.
GeneColOf(columns, state) ==
    IF Truthy(elegir_columna_gen(columns)) THEN elegir_columna_gen(columns)
    ELSE Selectbox(state, columns)

---------------------------------------------------------------------------
(* Bounds and input sets *)

\* The longest list of columns, and the most rows, of an input table.
MaxCols == 3
MaxRows == 1

\* The lists of at most n distinct elements of S.
DistinctSeqs(S, n) ==
    UNION {{q \in [1..k -> S] : \A i, j \in 1..k : q[i] = q[j] => i = j} :
              k \in 0..n}

\* The tables of 1..n rows over a layout: a sequence of
\* [name |-> column name, cells |-> the values a cell of it may hold].
RowsOver(layout) ==
    {row \in [1..Len(layout) -> UNION {layout[i].cells : i \in 1..Len(layout)}] :
        \A i \in 1..Len(layout) : row[i] \in layout[i].cells}

TablesOver(layout, n) ==
    {[columns |-> [i \in 1..Len(layout) |-> layout[i].name], rows |-> rs] :
        rs \in UNION {[1..k -> RowsOver(layout)] : k \in 1..n}}

Col(name, cells) == [name |-> name, cells |-> cells]

\* Column names of the contrast detector's inputs.
pX  == <<"X">>
pxl == <<"x">>
pNL == <<"a", NL, "b">>

DetectNames ==
    { pX \o LitLogFC,                              \* X_logFC
      pX \o <<"_","L","O","G","f","c">>,           \* X_LOGfc
      pX \o LitAdjP,                               \* X_adj.P.Val
      pX \o <<"_","A","D","J",".","p",".","v","A","L">>,
      pX \o LitP,                                  \* X_P.Value
      pX \o LitAveExpr,                            \* X_AveExpr
      pX \o <<"_","a","d","j","x","P","x","V","a","l">>,   \* dots replaced
      pX \o LitLogFC \o <<NL>>,                    \* a line break at the end
      pX \o LitLogFC \o LitAdjP,                   \* X_logFC_adj.P.Val
      pxl \o LitLogFC,                             \* x_logFC
      pxl \o LitP,                                 \* x_P.Value
      pNL \o LitLogFC,                             \* a line break inside
      pNL \o LitAdjP,
      LitLogFC }                                   \* _logFC, no prefix

\* Column names of the gene-column resolver's inputs.
GeneNames ==
    {candidatos[k] : k \in 1..Len(candidatos)}
        \cup { <<"s","y","m","b","o","l">>, <<"G","E","N","E">>,
               <<"f","o","o">> }

NoFile    == [kind |-> "none"]
Untouched == [options |-> <<>>, idx |-> 0]
NoDf      == [none |-> TRUE]
NotBuilt  == [notbuilt |-> TRUE]
NoViews   == [error |-> "none", explor |-> "none", volcano |-> "none",
              degs |-> "none", gen |-> "none"]
NoHist    == [ok |-> FALSE]

\* The widgets' defaults: thr_logfc 1.0 and thr_padj 0.05.
DefaultThr == [logfc |-> Num(1, 1, 0), padj |-> Num(1, 5, -2)]

WidgetsDefault ==
    /\ uploaded = NoFile /\ sep_choice = "auto"
    /\ sel_gene = Untouched
    /\ sel_contraste = Untouched /\ sel_contraste_tabla = Untouched
    /\ thr_volcano = DefaultThr /\ thr_degs = DefaultThr

OutputsIdle ==
    /\ deg = NotBuilt /\ cats = <<>> /\ deg_filt = <<>>
    /\ views = NoViews /\ hist = NoHist

---------------------------------------------------------------------------
(* The contrast detector on its own *)

InitDetect ==
    /\ WidgetsDefault /\ OutputsIdle
    /\ df \in {[columns |-> q, rows |-> <<>>] : q \in DistinctSeqs(DetectNames, MaxCols)}
    /\ info_contrastes = <<>>
    /\ gene_col = None
    /\ pc = "start"

Detect ==
    /\ pc = "start"
    /\ info_contrastes' = detectar_contrastes(df.columns)
    /\ pc' = "detected"
    /\ UNCHANGED <<widgets, df, gene_col, outputs>>

SpecDetect == InitDetect /\ [][Detect]_vars

---------------------------------------------------------------------------
(* The gene-column resolver on its own *)

InitGene ==
    /\ WidgetsDefault /\ OutputsIdle
    /\ df \in {[columns |-> q, rows |-> <<>>] : q \in DistinctSeqs(GeneNames, MaxCols)}
    /\ info_contrastes = <<>>
    /\ gene_col = None
    /\ pc = "start"

Resolve ==
    /\ pc = "start"
    /\ gene_col' = elegir_columna_gen(df.columns)
    /\ pc' = "resolved"
    /\ UNCHANGED <<widgets, df, info_contrastes, outputs>>

SpecGene == InitGene /\ [][Resolve]_vars

---------------------------------------------------------------------------
(* The table builder on its own *)

pA == <<"A">>
pB == <<"B">>
nFoo == <<"f","o","o">>

GeneCells == {Txt}

LogFCCells ==
    {NaN, Txt, Zero, Num(1, 1, 0), Num(-1, 2, 0), NumTxt(Num(1, 2, 0))}

\* padj values on both sides of the clip bounds 1e-300 and 1.0
PadjCells ==
    {NaN, Txt, NumTxt(Num(1, 1, -2)), Zero, Num(-1, 1, -1), Num(1, 5, -2),
     Num(1, 2, 0)}
        \cup {Num(1, 1, e) : e \in ((ClipLoExp - 2)..(ClipLoExp + 1))
                                      \cup {-5, -1, ClipHiExp, ClipHiExp + 1}}
        \cup {Num(1, 5, ClipLoExp - 1), Num(1, 5, ClipLoExp)}

One == {Num(1, 1, 0)}
Small == {Num(1, 1, -2), NaN}

BuildLayouts ==
    { << Col(nSYMBOL, GeneCells), Col(pA \o LitLogFC, LogFCCells),
         Col(pA \o LitAdjP, PadjCells) >>,
      << Col(nSYMBOL, GeneCells), Col(pA \o LitLogFC, One),
         Col(pA \o LitAveExpr, {NaN, Txt, Num(1, 1, 1)}),
         Col(pA \o LitP, Small) >>,
      << Col(nFoo, GeneCells), Col(pA \o LitLogFC, One),
         Col(pA \o LitAdjP, Small) >>,
      << Col(nSYMBOL, GeneCells), Col(nGene, GeneCells),
         Col(pA \o LitLogFC, One), Col(pA \o LitAdjP, Small) >>,
      << Col(nSYMBOL, GeneCells), Col(nPadj, One),
         Col(pA \o LitLogFC, One), Col(pA \o LitAdjP, Small) >>,
      << Col(nSYMBOL, GeneCells), Col(nLogFC, One),
         Col(pA \o LitLogFC, One), Col(pA \o LitAdjP, Small) >>,
      << Col(nSYMBOL, GeneCells), Col(nAveExpr, One),
         Col(pA \o LitLogFC, One), Col(pA \o LitAdjP, Small) >>,
      << Col(nSYMBOL, GeneCells), Col(pA \o LitLogFC, One),
         Col(pA \o LitAdjP, Small), Col(pB \o LitLogFC, One),
         Col(pB \o LitP, Small) >> }

BuildTables == UNION {TablesOver(l, MaxRows) : l \in BuildLayouts}

InitBuild ==
    /\ uploaded = NoFile /\ sep_choice = "auto"
    /\ sel_contraste_tabla = Untouched
    /\ thr_volcano = DefaultThr /\ thr_degs = DefaultThr
    /\ OutputsIdle
    /\ df \in BuildTables
    /\ info_contrastes = detectar_contrastes(df.columns)
    /\ sel_gene \in (IF Truthy(elegir_columna_gen(df.columns))
                     THEN {Untouched} ELSE SelectStates(df.columns))
    /\ gene_col = GeneColOf(df.columns, sel_gene)
    /\ sel_contraste \in SelectStates(sorted(Keys(info_contrastes)))
    /\ pc = "loaded"

\* Line 186-187: the contrast of the selectbox, and its table.
Build ==
    /\ pc = "loaded"
    /\ info_contrastes # <<>>
    /\ deg' = preparar_deg_por_contraste(
                  df, gene_col,
                  Selectbox(sel_contraste, sorted(Keys(info_contrastes))),
                  info_contrastes)
    /\ pc' = "built"
    /\ UNCHANGED <<widgets, df, info_contrastes, gene_col,
                   cats, deg_filt, views, hist>>

SpecBuild == InitBuild /\ [][Build]_vars

---------------------------------------------------------------------------
(* read_table *)

\* An uploaded file is [kind, ext, delim, table]: kind "text" is delimited
\* text whose fields are separated by delim, "excel" a workbook, "garbage"
\* bytes that no reader accepts (undecodable, or empty).
TextFile(ext, delim, t) == [kind |-> "text", ext |-> ext, delim |-> delim, table |-> t]
ExcelFile(ext, t) == [kind |-> "excel", ext |-> ext, delim |-> "", table |-> t]
Garbage(ext) == [kind |-> "garbage", ext |-> ext, delim |-> "",
                 table |-> [columns |-> <<>>, rows |-> <<>>]]

\* The header line read as one field: the names joined by the delimiter.
RECURSIVE JoinNames(_, _)
JoinNames(names, delim) ==
    IF Len(names) = 0 THEN <<>>
    ELSE IF Len(names) = 1 THEN names[1]
    ELSE names[1] \o <<delim>> \o JoinNames(Tail(names), delim)

\* pd.read_csv(bytes, sep=sep_real)
read_csv(file, sep_real) ==
    IF file.kind # "text" THEN Raised("LoadError")
    ELSE IF sep_real = file.delim \/ Len(file.table.columns) = 1 THEN file.table
    ELSE [columns |-> <<JoinNames(file.table.columns, file.delim)>>,
          rows    |-> [r \in 1..Len(file.table.rows) |-> <<Txt>>]]

\* pd.read_excel(bytes)
read_excel(file) ==
    IF file.kind = "excel" THEN file.table ELSE Raised("LoadError")

\* Lines 52-63.  The sniffing read leaves no "delimiter" in attrs, so the
\* separator of "auto" is the comma unless the name ends in .tsv.
SepReal(file, sep) ==
    IF sep = "auto" THEN (IF file.ext = "tsv" THEN "\t" ELSE ",")
    ELSE IF sep = "\\t" THEN "\t"
    ELSE sep

read_table(file, sep) ==
    IF file.ext \in {"xlsx", "xls"} THEN read_excel(file)
    ELSE IF sep = "auto" /\ file.ext # "tsv" /\ file.kind # "text"
         THEN Raised("LoadError")       \* the sniffing read raises
         ELSE read_csv(file, SepReal(file, sep))

SepChoices == {"auto", ",", ";", "\\t", "|"}

---------------------------------------------------------------------------
(* One run of the script, lines 134-267 *)

\* Lines 140-147, with the table read.  shown: the options of the gene
\* selectbox when the run renders it.
Loaded(t, sg) ==
    [error    |-> "none",
     df       |-> t,
     info     |-> detectar_contrastes(t.columns),
     gene_col |-> GeneColOf(t.columns, sg),
     shown    |-> IF Truthy(elegir_columna_gen(t.columns)) THEN <<>> ELSE t.columns]

NotLoaded(error) ==
    [error |-> error, df |-> NoDf, info |-> <<>>, gene_col |-> None, shown |-> <<>>]

\* Lines 134-147.  A raise of read_table ends the run at line 139, with df,
\* info_contrastes and gene_col as lines 134-136 set them.
LoadPart(up, sep, sg) ==
    IF up = NoFile THEN NotLoaded("none")
    ELSE Bind(read_table(up, sep),
              LAMBDA t : IF IsRaised(t) THEN NotLoaded("LoadError")
                         ELSE Loaded(t, sg))

DfIsNone(d) == "none" \in DOMAIN d

\* Lines 246-259: the first row of the selected gene; with no gene to select
\* the subset is empty and .iloc[0] raises.
GenHasGene(d, gcol) ==
    \E r \in 1..Len(d.rows) : ~IsNaN(d.rows[r][TheCol(d, gcol)])

\* What a run leaves: the script's variables, the rows of the DEGs mask, what
\* was rendered, and the options of the selectboxes it rendered.
RunResult(L, degt, labels, rows, v, o2, o3) ==
    [df |-> L.df, info |-> L.info, gene_col |-> L.gene_col,
     deg |-> degt, cats |-> labels, mask |-> rows, views |-> v,
     shown_gene |-> L.shown, shown2 |-> o2, shown3 |-> o3]

\* Lines 152-267 after the load L.  A raise ends the run: what follows is
\* not rendered.
Tabs(L, sc, sct, tv, td) ==
    LET opts == sorted(Keys(L.info))
        \* tab 1
        v1   == [NoViews EXCEPT !.explor = IF DfIsNone(L.df) THEN "prompt" ELSE "data"]
        \* tab 2
        go2  == ~(DfIsNone(L.df) \/ L.info = <<>> \/ L.gene_col = None)
        v2   == [v1 EXCEPT !.volcano = IF go2 THEN "chart" ELSE "prompt"]
        o2   == IF go2 THEN opts ELSE <<>>
        \* tab 3
        go3  == ~(DfIsNone(L.df) \/ L.info = <<>>)
        v3   == [v2 EXCEPT !.degs = IF go3 THEN "table" ELSE "prompt"]
        o3   == IF go3 THEN opts ELSE <<>>
        \* tab 4
        go4  == go2
        v4   == [v3 EXCEPT !.gen = IF go4 THEN "data" ELSE "prompt"]
    IN  Bind(IF go2 THEN preparar_deg_por_contraste(
                             L.df, L.gene_col, Selectbox(sc, opts), L.info)
             ELSE NotBuilt,
        LAMBDA deg2 :
        IF go2 /\ IsRaised(deg2)
        THEN RunResult(L, deg2, <<>>, {}, [v1 EXCEPT !.error = deg2.raised], o2, <<>>)
        ELSE
        Bind(IF go2 THEN ApplyCat(deg2, tv) ELSE <<>>,
        LAMBDA labels :
        Bind(IF go3 THEN preparar_deg_por_contraste(
                             L.df, L.gene_col, Selectbox(sct, opts), L.info)
             ELSE deg2,
        LAMBDA deg3 :
        IF go3 /\ IsRaised(deg3)
        THEN RunResult(L, deg3, labels, {}, [v2 EXCEPT !.error = deg3.raised], o2, o3)
        ELSE
        Bind(IF go3 THEN MaskRows(deg3, td) ELSE {},
        LAMBDA rows :
        IF go4 /\ ~GenHasGene(L.df, L.gene_col)
        THEN RunResult(L, deg3, labels, rows, [v3 EXCEPT !.error = "IndexError"], o2, o3)
        ELSE RunResult(L, deg3, labels, rows, v4, o2, o3)))))

\* The whole run, lines 134-267.
ScriptRun(up, sep, sg, sc, sct, tv, td) ==
    Bind(LoadPart(up, sep, sg),
         LAMBDA L : IF L.error # "none"
                    THEN RunResult(L, NotBuilt, <<>>, {},
                                   [NoViews EXCEPT !.error = L.error], <<>>, <<>>)
                    ELSE Tabs(L, sc, sct, tv, td))

\* sort_values("padj") of the rows S of degt: ascending padj, rows of equal
\* padj in any order (the default sort is not stable).
SortedByPadj(degt, S) ==
    {q \in [1..Cardinality(S) -> S] :
        /\ \A i, j \in 1..Cardinality(S) : q[i] = q[j] => i = j
        /\ \A i, j \in 1..Cardinality(S) :
               i < j => ~Lt(RowPadj(degt, degt.rows[q[j]]),
                            RowPadj(degt, degt.rows[q[i]]))}

\* A selectbox keeps the user's pick while it is rendered with the options
\* the pick was made from.
Keep(state, options) ==
    IF state.options = options /\ state.idx \in 1..Len(options)
    THEN state ELSE Untouched

\* The script's variables and what it rendered are those of the run `out`.
Shows(out) ==
    /\ df' = out.df
    /\ info_contrastes' = out.info
    /\ gene_col' = out.gene_col
    /\ deg' = out.deg
    /\ cats' = out.cats
    /\ deg_filt' \in (IF out.mask = {} THEN {<<>>}
                      ELSE SortedByPadj(out.deg, out.mask))
    /\ views' = out.views

\* The script runs with the widgets as the user left them.
Run(up, sep, sg, sc, sct, tv, td) ==
    \E out \in {ScriptRun(up, sep, sg, sc, sct, tv, td)} :
        /\ Shows(out)
        /\ uploaded' = up
        /\ sep_choice' = sep
        /\ sel_gene' = Keep(sg, out.shown_gene)
        /\ sel_contraste' = Keep(sc, out.shown2)
        /\ sel_contraste_tabla' = Keep(sct, out.shown3)
        /\ thr_volcano' = tv
        /\ thr_degs' = td
        /\ pc' = "ran"

\* The first run after the upload, with every other widget at its default.
FirstRun ==
    \E out \in {ScriptRun(uploaded, "auto", Untouched, Untouched, Untouched,
                          DefaultThr, DefaultThr)} :
        /\ df = out.df
        /\ info_contrastes = out.info
        /\ gene_col = out.gene_col
        /\ deg = out.deg
        /\ cats = out.cats
        /\ deg_filt \in (IF out.mask = {} THEN {<<>>}
                         ELSE SortedByPadj(out.deg, out.mask))
        /\ views = out.views
        /\ sep_choice = "auto"
        /\ sel_gene = Untouched
        /\ sel_contraste = Untouched /\ sel_contraste_tabla = Untouched
        /\ thr_volcano = DefaultThr /\ thr_degs = DefaultThr
        /\ pc = "ran"

---------------------------------------------------------------------------
(* The thresholds of the two tabs, over one loaded table *)

\* Values of the number_inputs: |logFC| in [0, 10], adj.P.Val in [0, 1].
ThrLogfcSet == {Zero, Num(1, 1, 0), Num(1, 2, 0)}
ThrPadjSet  == {Zero, Num(1, 5, -2), Num(1, 1, 0)}

CatLayout ==
    << Col(nSYMBOL, GeneCells),
       Col(pA \o LitLogFC,
           {Txt, NaN, Num(-1, 2, 0), Num(-1, 1, 0), Zero, Num(1, 1, 0), Num(1, 2, 0)}),
       Col(pA \o LitAdjP,
           {NaN, Zero, Num(1, 5, -2), Num(1, 1, -1), Num(1, 1, 0)}) >>

\* Tables of two rows, for the count and the order of the filtered rows.
PairLayout ==
    << Col(nSYMBOL, GeneCells),
       Col(pA \o LitLogFC, {Num(-1, 2, 0), Num(1, 1, 0), Txt}),
       Col(pA \o LitAdjP, {Num(1, 5, -2), Zero}) >>

CatTables ==
    TablesOver(CatLayout, 1)
        \cup {t \in TablesOver(PairLayout, 2) : Len(t.rows) = 2}

CatFiles == {TextFile("csv", ",", t) : t \in CatTables}

InitCat ==
    /\ uploaded \in CatFiles
    /\ hist = NoHist
    /\ FirstRun

ThrLogfcVolcano ==
    \E t \in ThrLogfcSet :
        /\ Run(uploaded, sep_choice, sel_gene, sel_contraste, sel_contraste_tabla,
               [thr_volcano EXCEPT !.logfc = t], thr_degs)
        /\ hist' = hist

ThrPadjVolcano ==
    \E p \in ThrPadjSet :
        /\ Run(uploaded, sep_choice, sel_gene, sel_contraste, sel_contraste_tabla,
               [thr_volcano EXCEPT !.padj = p], thr_degs)
        /\ hist' = hist

ThrLogfcDegs ==
    \E t \in ThrLogfcSet :
        /\ Run(uploaded, sep_choice, sel_gene, sel_contraste, sel_contraste_tabla,
               thr_volcano, [thr_degs EXCEPT !.logfc = t])
        /\ hist' = hist

ThrPadjDegs ==
    \E p \in ThrPadjSet :
        /\ Run(uploaded, sep_choice, sel_gene, sel_contraste, sel_contraste_tabla,
               thr_volcano, [thr_degs EXCEPT !.padj = p])
        /\ hist' = hist

NextCat == ThrLogfcVolcano \/ ThrPadjVolcano \/ ThrLogfcDegs \/ ThrPadjDegs

SpecCat == InitCat /\ [][NextCat]_vars

---------------------------------------------------------------------------
(* The Volcano / MA thresholds, with the labels of an earlier run kept *)

\* hist is unchanged, or becomes the thresholds and labels before the step.
Remember ==
    hist' \in {hist, [ok |-> TRUE, thr |-> thr_volcano, cats |-> cats]}

MonoLogfc ==
    \E t \in ThrLogfcSet :
        /\ Run(uploaded, sep_choice, sel_gene, sel_contraste, sel_contraste_tabla,
               [thr_volcano EXCEPT !.logfc = t], thr_degs)
        /\ Remember

MonoPadj ==
    \E p \in ThrPadjSet :
        /\ Run(uploaded, sep_choice, sel_gene, sel_contraste, sel_contraste_tabla,
               [thr_volcano EXCEPT !.padj = p], thr_degs)
        /\ Remember

NextMono == MonoLogfc \/ MonoPadj

SpecMono == InitCat /\ [][NextMono]_vars

---------------------------------------------------------------------------
(* The session: uploads, the separator and the selectboxes *)

AppLayouts ==
    { << Col(nSYMBOL, GeneCells), Col(pA \o LitLogFC, {Num(1, 2, 0)}),
         Col(pA \o LitAdjP, {Num(1, 1, -2)}) >>,
      << Col(nFoo, GeneCells), Col(pA \o LitLogFC, {Num(1, 2, 0), NaN}),
         Col(pA \o LitAdjP, {Num(1, 1, -2)}) >>,
      << Col(nSYMBOL, GeneCells), Col(pA \o LitLogFC, {Num(1, 2, 0)}),
         Col(pA \o LitAdjP, {Num(1, 1, -2)}), Col(pB \o LitLogFC, {Num(-1, 5, -1)}),
         Col(pB \o LitP, {Num(1, 2, -1)}) >>,
      << Col(nSYMBOL, GeneCells), Col(nFoo, {Num(1, 1, 0)}) >> }

AppTables == UNION {TablesOver(l, MaxRows) : l \in AppLayouts}

SomeAppTable == CHOOSE t \in AppTables : Len(t.columns) = 3 /\ t.columns[1] = nSYMBOL

AppFiles ==
    {TextFile("csv", ",", t) : t \in AppTables}
        \cup {TextFile("csv", ";", SomeAppTable), TextFile("tsv", "\t", SomeAppTable),
              ExcelFile("xlsx", SomeAppTable), TextFile("xls", ",", SomeAppTable),
              Garbage("csv"), Garbage("xlsx")}

InitApp ==
    /\ uploaded = NoFile
    /\ hist = NoHist
    /\ FirstRun

\* hist: the table, contrasts and gene column of the last load that succeeded.
LastGoodLoad ==
    hist' = IF DfIsNone(df') THEN hist
            ELSE [ok |-> TRUE, df |-> df', info |-> info_contrastes',
                  gene_col |-> gene_col']

Upload ==
    \E f \in AppFiles :
        /\ f # uploaded
        /\ Run(f, sep_choice, sel_gene, sel_contraste, sel_contraste_tabla,
               thr_volcano, thr_degs)
        /\ LastGoodLoad

ClearUpload ==
    /\ uploaded # NoFile
    /\ Run(NoFile, sep_choice, sel_gene, sel_contraste, sel_contraste_tabla,
           thr_volcano, thr_degs)
    /\ LastGoodLoad

SetSep ==
    \E sep \in SepChoices \ {sep_choice} :
        /\ Run(uploaded, sep, sel_gene, sel_contraste, sel_contraste_tabla,
               thr_volcano, thr_degs)
        /\ LastGoodLoad

\* The gene selectbox is on the page when a table is loaded and none of its
\* columns is a candidate.
SelectGene ==
    /\ ~DfIsNone(df) /\ ~Truthy(elegir_columna_gen(df.columns))
    /\ \E i \in 1..Len(df.columns) :
           /\ Run(uploaded, sep_choice, [options |-> df.columns, idx |-> i],
                  sel_contraste, sel_contraste_tabla, thr_volcano, thr_degs)
           /\ LastGoodLoad

SelectContraste ==
    /\ views.volcano = "chart"
    /\ \E i \in 1..Len(info_contrastes) :
           /\ Run(uploaded, sep_choice, sel_gene,
                  [options |-> sorted(Keys(info_contrastes)), idx |-> i],
                  sel_contraste_tabla, thr_volcano, thr_degs)
           /\ LastGoodLoad

SelectContrasteTabla ==
    /\ views.degs = "table"
    /\ \E i \in 1..Len(info_contrastes) :
           /\ Run(uploaded, sep_choice, sel_gene, sel_contraste,
                  [options |-> sorted(Keys(info_contrastes)), idx |-> i],
                  thr_volcano, thr_degs)
           /\ LastGoodLoad

NextApp ==
    \/ Upload \/ ClearUpload \/ SetSep
    \/ SelectGene \/ SelectContraste \/ SelectContrasteTabla

SpecApp == InitApp /\ [][NextApp]_vars

---------------------------------------------------------------------------
(* Claims about the contrast detector *)

\* c is the prefix X followed by lit, lit written in any letter case.
IsSuffixed(c, X, lit) ==
    /\ Len(c) = Len(X) + Len(lit)
    /\ SubSeq(c, 1, Len(X)) = X
    /\ \A i \in 1..Len(lit) : Lower(c[Len(X) + i]) = Lower(lit[i])

\* c is a column of the table that starts with the prefix X.
CarriesPrefix(c, X) ==
    /\ c # None
    /\ InColumns(c, df.columns)
    /\ Len(c) > Len(X)
    /\ SubSeq(c, 1, Len(X)) = X

\* C1: every contrast of the result has a logFC column and an adjP or a P
\* column, all of them columns of the table; a prefix for which the table
\* has no _logFC column is not a key of the result.
C1_OnlyCompleteContrasts ==
    pc = "detected" =>
        \A i \in 1..Len(info_contrastes) :
            LET X == info_contrastes[i].pref
                d == info_contrastes[i].d
            IN  /\ d.logFC # None
                /\ d.adjP # None \/ d.P # None
                /\ InColumns(d.logFC, df.columns)
                /\ \E j \in 1..Len(df.columns) :
                       \/ IsSuffixed(df.columns[j], X, LitLogFC)
                       \/ IsSuffixed(df.columns[j], X, LitLogFC \o <<NL>>)

\* C1 witness: x_P.Value without x_logFC beside a complete contrast X; x is
\* left out and X is kept.
C1_Witness ==
    /\ pc = "detected"
    /\ InColumns(pxl \o LitP, df.columns)
    /\ ~InColumns(pxl \o LitLogFC, df.columns)
    /\ Keys(info_contrastes) = {pX}

\* C2: whenever the table has X_logFC and X_adj.P.Val for one non-empty
\* prefix X, in any letter case, X is a key of the result and its logFC and
\* adjP fields are columns with the prefix X.
C2_PairIsDetected ==
    pc = "detected" =>
        \A i, j \in 1..Len(df.columns) :
            LET c1 == df.columns[i]
                c2 == df.columns[j]
                X  == SubSeq(c1, 1, Len(c1) - Len(LitLogFC))
            IN  (/\ X # <<>>
                 /\ IsSuffixed(c1, X, LitLogFC)
                 /\ IsSuffixed(c2, X, LitAdjP))
                => /\ X \in Keys(info_contrastes)
                   /\ CarriesPrefix(Meta(info_contrastes, X).logFC, X)
                   /\ CarriesPrefix(Meta(info_contrastes, X).adjP, X)

\* The same for the prefixes that hold no line break: this much holds.
C2_PairIsDetectedOnOneLine ==
    pc = "detected" =>
        \A i, j \in 1..Len(df.columns) :
            LET c1 == df.columns[i]
                c2 == df.columns[j]
                X  == SubSeq(c1, 1, Len(c1) - Len(LitLogFC))
            IN  (/\ X # <<>>
                 /\ \A k \in 1..Len(X) : X[k] # NL
                 /\ IsSuffixed(c1, X, LitLogFC)
                 /\ IsSuffixed(c2, X, LitAdjP))
                => /\ X \in Keys(info_contrastes)
                   /\ CarriesPrefix(Meta(info_contrastes, X).logFC, X)
                   /\ CarriesPrefix(Meta(info_contrastes, X).adjP, X)

---------------------------------------------------------------------------
(* Claims about the gene-column resolver *)

\* The priority list as the claim gives it.
C9_Priority ==
    << <<"S","Y","M","B","O","L">>, <<"g","e","n","e","_","i","d">>,
       <<"G","e","n","e","i","d">>, <<"G","e","n","e","I","D">>,
       <<"g","e","n","e">>, <<"G","e","n","e">>,
       <<"l","o","c","u","s","_","t","a","g">> >>

\* C9: the result is the candidate earliest in the priority list among those
\* that are columns (exact match), whatever the order of the columns, and
\* None exactly when no candidate is a column.
C9_EarliestCandidate ==
    pc = "resolved" =>
        LET present == {k \in 1..Len(C9_Priority) :
                           InColumns(C9_Priority[k], df.columns)}
        IN  IF present = {} THEN gene_col = None
            ELSE gene_col = C9_Priority[Min(present)]

\* C9 witness: the columns Geneid, SYMBOL, foo resolve to SYMBOL.
C9_Witness ==
    /\ pc = "resolved"
    /\ df.columns = <<nGeneid, nSYMBOL, nFoo>>
    /\ gene_col = nSYMBOL

---------------------------------------------------------------------------
(* Claims about the table builder *)

\* The contrast the builder was called with, and its padj column.
BuiltContraste == Selectbox(sel_contraste, sorted(Keys(info_contrastes)))
BuiltPadjCol ==
    IF Truthy(Meta(info_contrastes, BuiltContraste).adjP)
    THEN Meta(info_contrastes, BuiltContraste).adjP
    ELSE Meta(info_contrastes, BuiltContraste).P

\* C5: the builder does not raise; its table has the five columns gene,
\* logFC, AveExpr, padj, neg_log10_padj in this order and the input's rows
\* in the input's order, and AveExpr is NaN in every row when the contrast
\* has no AveExpr column.
C5_FiveColumnsNoRaise ==
    pc = "built" =>
        /\ ~IsRaised(deg)
        /\ deg.columns = DegColumns
        /\ Len(deg.rows) = Len(df.rows)
        /\ \A r \in 1..Len(deg.rows) :
               deg.rows[r][1] = df.rows[r][TheCol(df, gene_col)]
        /\ Meta(info_contrastes, BuiltContraste).AveExpr = None
               => \A r \in 1..Len(deg.rows) : IsNaN(deg.rows[r][3])

\* x is the real number n.
IsInt(x, n) == x.k = "log" /\ x.m = 1 /\ x.s * x.e = n

\* C6: in every row of a DegTable neg_log10_padj is NaN when padj is NaN or
\* text, 300 when padj <= 1e-300 (zero and negatives too), 0 when
\* padj >= 1, and -log10(padj) in between.
C6_NegLog10Clamped ==
    (pc = "built" /\ ~IsRaised(deg) /\ deg.columns = DegColumns) =>
        \A r \in 1..Len(deg.rows) :
            LET raw == df.rows[r][TheCol(df, BuiltPadjCol)]
                v   == [raw EXCEPT !.k = "num"]
                n   == deg.rows[r][5]
            IN  CASE raw.k \in {"nan", "txt"} -> IsNaN(n) /\ IsNaN(deg.rows[r][4])
                  [] Le(v, Num(1, 1, -300))   -> IsInt(n, 300)
                  [] Ge(v, Num(1, 1, 0))      -> IsInt(n, 0)
                  [] OTHER -> n = [k |-> "log", s |-> -1, m |-> v.m, e |-> v.e]

\* C6 witness: a built table with a row whose padj is 0 and whose
\* neg_log10_padj is 300, and a row whose padj is NaN.
C6_Witness ==
    /\ pc = "built" /\ ~IsRaised(deg) /\ deg.columns = DegColumns
    /\ \E r \in 1..Len(deg.rows) :
           /\ df.rows[r][TheCol(df, BuiltPadjCol)] = Zero
           /\ IsInt(deg.rows[r][5], 300)

---------------------------------------------------------------------------
(* Claims about the classifier and the DEGs mask *)

\* The cells of row r of the loaded table in the logFC and the padj column
\* of its one contrast A.
RawLogFC(r) == df.rows[r][TheCol(df, pA \o LitLogFC)]
RawPadj(r)  == df.rows[r][TheCol(df, pA \o LitAdjP)]

NotANumber(x) == x.k \in {"nan", "txt"}

\* C3: a row is "No eval" when its logFC or its padj is NaN; otherwise, when
\* |logFC| >= thrLogFC and padj <= thrPadj (equality included), it is "Up"
\* for logFC > 0 and "Down" otherwise; every other row is "No sig".
C3_ClassifierLabels ==
    (pc = "ran" /\ views.volcano = "chart") =>
        /\ Len(cats) = Len(df.rows)
        /\ \A r \in 1..Len(cats) :
               LET l == [RawLogFC(r) EXCEPT !.k = "num"]
                   q == [RawPadj(r) EXCEPT !.k = "num"]
               IN  cats[r] =
                       IF NotANumber(RawLogFC(r)) \/ NotANumber(RawPadj(r))
                       THEN "No eval"
                       ELSE IF /\ ~Lt([l EXCEPT !.s = IF l.s = 0 THEN 0 ELSE 1],
                                      thr_volcano.logfc)
                               /\ ~Lt(thr_volcano.padj, q)
                            THEN (IF l.s = 1 THEN "Up" ELSE "Down")
                            ELSE "No sig"

\* C3 witness: logFC -2.0 and padj 1.0 under the thresholds 2.0 and 1.0,
\* both at equality, labelled "Down".
C3_Witness ==
    /\ pc = "ran" /\ views.volcano = "chart"
    /\ thr_volcano = [logfc |-> Num(1, 2, 0), padj |-> Num(1, 1, 0)]
    /\ Len(cats) = 1
    /\ RawLogFC(1) = Num(-1, 2, 0) /\ RawPadj(1) = Num(1, 1, 0)
    /\ cats[1] = "Down"

UpDown == {"Up", "Down"}

\* (t1, p1) is no stricter than (t2, p2): t1 <= t2 and p1 >= p2.
NoStricter(a, b) == Le(a.logfc, b.logfc) /\ Ge(a.padj, b.padj)

\* C4: with the labels of an earlier run of the same table under other
\* thresholds: a row "No sig" under the looser pair is not "Up"/"Down" under
\* the stricter pair, a row "Up"/"Down" under the stricter pair is not
\* "No sig" under the looser pair, and no row is "Up" in one run and "Down"
\* in the other.
C4_Monotonic ==
    (pc = "ran" /\ hist.ok /\ views.volcano = "chart") =>
        \A r \in 1..Len(cats) :
            /\ NoStricter(hist.thr, thr_volcano)
                   => /\ hist.cats[r] = "No sig" => cats[r] \notin UpDown
                      /\ cats[r] \in UpDown => hist.cats[r] # "No sig"
            /\ NoStricter(thr_volcano, hist.thr)
                   => /\ cats[r] = "No sig" => hist.cats[r] \notin UpDown
                      /\ hist.cats[r] \in UpDown => cats[r] # "No sig"
            /\ ~(hist.cats[r] = "Up" /\ cats[r] = "Down")
            /\ ~(hist.cats[r] = "Down" /\ cats[r] = "Up")

\* C4 witness: a row that was "Up" and is "No sig" now that both thresholds
\* are stricter.
C4_Witness ==
    /\ pc = "ran" /\ hist.ok /\ views.volcano = "chart"
    /\ Lt(hist.thr.logfc, thr_volcano.logfc)
    /\ Lt(thr_volcano.padj, hist.thr.padj)
    /\ \E r \in 1..Len(cats) : hist.cats[r] = "Up" /\ cats[r] = "No sig"

\* C10: when both tabs hold the same thresholds, the rows of the DEGs tab's
\* filtered table are exactly the rows the Volcano / MA tab labels "Up" or
\* "Down", each once, and their number is the count of significant genes.
C10_MaskIsUpDown ==
    (/\ pc = "ran" /\ views.volcano = "chart" /\ views.degs = "table"
     /\ thr_volcano = thr_degs
     /\ Selectbox(sel_contraste, sorted(Keys(info_contrastes)))
            = Selectbox(sel_contraste_tabla, sorted(Keys(info_contrastes))))
    => /\ {deg_filt[i] : i \in 1..Len(deg_filt)}
              = {r \in 1..Len(cats) : cats[r] \in UpDown}
       /\ Len(deg_filt) = Cardinality({r \in 1..Len(cats) : cats[r] \in UpDown})

\* C10 witness: of two rows, a "Down" row is the one filtered row and a
\* "No eval" row is left out.
C10_Witness ==
    /\ pc = "ran" /\ views.volcano = "chart" /\ views.degs = "table"
    /\ thr_volcano = thr_degs /\ thr_degs.logfc = Num(1, 2, 0)
    /\ Len(cats) = 2
    /\ cats[1] = "Down" /\ cats[2] = "No eval"
    /\ deg_filt = <<1>>

---------------------------------------------------------------------------
(* Claims about the session *)

\* C7: when the file in the uploader fails to load after an earlier load
\* succeeded, the failure is shown and the table, contrasts and gene column
\* of that earlier load are still the session's, with the Exploración tab
\* showing data.
C7_FailedLoadKeepsState ==
    (/\ pc = "ran" /\ uploaded # NoFile
     /\ IsRaised(read_table(uploaded, sep_choice))
     /\ hist.ok)
    => /\ views.error # "none"
       /\ df = hist.df
       /\ info_contrastes = hist.info
       /\ gene_col = hist.gene_col
       /\ views.explor = "data"

\* C8: while a table none of whose columns is a conventional gene column is
\* loaded and the user has picked no gene column, no tab has built a
\* derived table or rendered gene data.
C8_ViewsWaitForGeneColumn ==
    (/\ pc = "ran" /\ ~DfIsNone(df)
     /\ \A k \in 1..Len(C9_Priority) : ~InColumns(C9_Priority[k], df.columns)
     /\ sel_gene = Untouched)
    => /\ deg = NotBuilt
       /\ views.volcano # "chart"
       /\ views.degs # "table"
       /\ views.gen # "data"

===========================================================================
